---- MODULE Spec2Model ----
(***************************************************************************)
(* A model of the familylink command line tool: the configuration loader,  *)
(* the schedule resolver, the reconciliation loop of _apply_config and the *)
(* write operations of the FamilyLink client.                              *)
(*                                                                         *)
(* Python strings are sequences of one-character strings, so that split,   *)
(* strip, lower, int() and the lexicographic comparison of "HH:MM" strings *)
(* are computed as Python computes them.  Python values that the code      *)
(* mixes in one dictionary (True, False, None, int) are tagged records, so *)
(* that ==, truthiness and "is" keep Python's meaning (True == 1).         *)
(***************************************************************************)
EXTENDS Integers, Sequences, FiniteSets, TLC

(***************************************************************************)
(* Bounds of the model.                                                    *)
(***************************************************************************)
\* Longest configuration file, in rows.
MaxRows == 2
\* Largest number of apps in the answer of the remote service.
MaxApps == 2
\* Largest number of client operations in a library session (ClientSpec).
MaxCalls == 2

(***************************************************************************)
(* Python values.                                                          *)
(***************************************************************************)
None == [t |-> "none", v |-> 0]
True == [t |-> "bool", v |-> 1]
False == [t |-> "bool", v |-> 0]
PyInt(n) == [t |-> "int", v |-> n]

\* bool(x): None, False and 0 are falsy.
truthy(x) == x.t # "none" /\ x.v # 0

\* x == y: bool is a subclass of int, so True == 1 and False == 0.
py_eq(x, y) == IF x.t = "none" \/ y.t = "none" THEN x.t = y.t ELSE x.v = y.v

\* An ordered dict as a sequence of <<key, value>> pairs.
RECURSIVE dict_index(_, _, _)
dict_index(d, k, i) ==
    IF i > Len(d) THEN 0
    ELSE IF d[i][1] = k THEN i
    ELSE dict_index(d, k, i + 1)

\* d[k] = v: a known key keeps its position, a new key goes last.
dict_set(d, k, v) ==
    LET i == dict_index(d, k, 1)
    IN  IF i = 0 THEN Append(d, <<k, v>>) ELSE [d EXCEPT ![i] = <<k, v>>]

\* A dict whose order is never read, as a function; f[k] = v.
map_set(f, k, v) == [x \in (DOMAIN f) \cup {k} |-> IF x = k THEN v ELSE f[x]]

\* f.get(k)
map_get(f, k) == IF k \in DOMAIN f THEN f[k] ELSE None

EmptyMap == [x \in {} |-> None]

(***************************************************************************)
(* Python strings.                                                         *)
(***************************************************************************)
\* The printable ASCII characters by code: 32..95 and 97..126.
AsciiLow ==
    << " ", "!", "\"", "#", "$", "%", "&", "'", "(", ")", "*", "+", ",", "-",
       ".", "/", "0", "1", "2", "3", "4", "5", "6", "7", "8", "9", ":", ";",
       "<", "=", ">", "?", "@", "A", "B", "C", "D", "E", "F", "G", "H", "I",
       "J", "K", "L", "M", "N", "O", "P", "Q", "R", "S", "T", "U", "V", "W",
       "X", "Y", "Z", "[", "\\", "]", "^", "_" >>

AsciiHigh ==
    << "a", "b", "c", "d", "e", "f", "g", "h", "i", "j", "k", "l", "m", "n",
       "o", "p", "q", "r", "s", "t", "u", "v", "w", "x", "y", "z", "{", "|",
       "}", "~" >>

\* The code of every character of the table.
CodeOf ==
    [c \in {AsciiLow[i] : i \in 1..Len(AsciiLow)} \cup {AsciiHigh[i] : i \in 1..Len(AsciiHigh)}
        |-> IF \E i \in 1..Len(AsciiLow) : AsciiLow[i] = c
            THEN 31 + (CHOOSE i \in 1..Len(AsciiLow) : AsciiLow[i] = c)
            ELSE 96 + (CHOOSE i \in 1..Len(AsciiHigh) : AsciiHigh[i] = c)]

ord(c) == CodeOf[c]

chr(n) == IF n <= 95 THEN AsciiLow[n - 31] ELSE AsciiHigh[n - 96]

IsDigit(c) == ord(c) \in 48..57
IsSpace(c) == c = " "

\* str.lower()
lower(s) == [i \in 1..Len(s) |-> IF ord(s[i]) \in 65..90 THEN chr(ord(s[i]) + 32) ELSE s[i]]

\* str.strip()
RECURSIVE lstrip(_)
lstrip(s) == IF s # <<>> /\ IsSpace(Head(s)) THEN lstrip(Tail(s)) ELSE s

RECURSIVE rstrip(_)
rstrip(s) ==
    IF s # <<>> /\ IsSpace(s[Len(s)]) THEN rstrip(SubSeq(s, 1, Len(s) - 1)) ELSE s

strip(s) == rstrip(lstrip(s))

\* str.split(sep) for a one-character separator: "".split(sep) is [""].
RECURSIVE split_acc(_, _, _, _)
split_acc(s, sep, cur, acc) ==
    IF s = <<>> THEN Append(acc, cur)
    ELSE IF Head(s) = sep THEN split_acc(Tail(s), sep, <<>>, Append(acc, cur))
    ELSE split_acc(Tail(s), sep, Append(cur, Head(s)), acc)

split(s, sep) == split_acc(s, sep, <<>>, <<>>)

\* a <= b on strings: lexicographic by character code, a prefix comes first.
RECURSIVE str_le(_, _)
str_le(a, b) ==
    IF a = <<>> THEN TRUE
    ELSE IF b = <<>> THEN FALSE
    ELSE IF Head(a) = Head(b) THEN str_le(Tail(a), Tail(b))
    ELSE ord(Head(a)) < ord(Head(b))

\* s.startswith(prefix)
startswith(s, prefix) ==
    Len(prefix) <= Len(s) /\ SubSeq(s, 1, Len(prefix)) = prefix

\* sub in s
contains(s, sub) ==
    \E i \in 0..(Len(s) - Len(sub)) : SubSeq(s, i + 1, i + Len(sub)) = sub

\* int(s): surrounding blanks, an optional sign, one or more digits.
int_digits(s) ==
    LET t == strip(s)
    IN  IF t # <<>> /\ (Head(t) = "-" \/ Head(t) = "+") THEN Tail(t) ELSE t

int_ok(s) ==
    LET d == int_digits(s)
    IN  d # <<>> /\ \A i \in 1..Len(d) : IsDigit(d[i])

RECURSIVE digits_value(_)
digits_value(d) ==
    IF d = <<>> THEN 0
    ELSE 10 * digits_value(SubSeq(d, 1, Len(d) - 1)) + (ord(d[Len(d)]) - 48)

int(s) ==
    LET t == strip(s)
    IN  IF t # <<>> /\ Head(t) = "-" THEN 0 - digits_value(int_digits(s))
        ELSE digits_value(int_digits(s))

\* A result of a call: its value, or the exception it raised.
Ok(x) == [err |-> "none", val |-> x]
Raise(e) == [err |-> e, val |-> None]

(***************************************************************************)
(* cli.py: the configuration loader.                                       *)
(***************************************************************************)
\* _parse_duration: "H:MM" to minutes.  An empty string, and a string that
\* does not split in two at ":", give 0; int() raises on a part that is no
\* number.
_parse_duration(duration_str) ==
    IF duration_str = <<>> THEN Ok(0)
    ELSE LET parts == split(duration_str, ":")
         IN  IF Len(parts) = 2
             THEN IF int_ok(parts[1]) /\ int_ok(parts[2])
                  THEN Ok(int(parts[1]) * 60 + int(parts[2]))
                  ELSE Raise("ValueError")
             ELSE Ok(0)

\* days_map of _parse_days, in the order it is written.
days_map ==
    << << <<"m", "o", "n">>, "monday" >>,
       << <<"t", "u", "e">>, "tuesday" >>,
       << <<"w", "e", "d">>, "wednesday" >>,
       << <<"t", "h", "u">>, "thursday" >>,
       << <<"f", "r", "i">>, "friday" >>,
       << <<"s", "a", "t">>, "saturday" >>,
       << <<"s", "u", "n">>, "sunday" >>
    >>

\* list(days_map.values())
all_days == [i \in 1..Len(days_map) |-> days_map[i][2]]

\* a_list[start:stop] with 0 <= start, indices counted from 0.
slice(a_list, start, stop) ==
    LET hi == IF stop > Len(a_list) THEN Len(a_list) ELSE stop
    IN  IF hi <= start THEN <<>> ELSE SubSeq(a_list, start + 1, hi)

\* _parse_days: a day ("Fri") or a range of days ("Mon-Wed") to day names.
\* list.index raises ValueError and days_map[...] raises KeyError on an
\* unknown day; a string with two or more "-" fails to unpack.
_parse_days(days_str) ==
    IF days_str = <<>> THEN Ok(<<>>)
    ELSE IF contains(days_str, <<"-">>)
    THEN LET parts == split(lower(days_str), "-")
         IN  IF Len(parts) # 2 THEN Raise("ValueError")
             ELSE LET start_idx == dict_index(days_map, parts[1], 1) - 1
                      end_idx == dict_index(days_map, parts[2], 1) - 1
                  IN  IF start_idx < 0 \/ end_idx < 0 THEN Raise("ValueError")
                      ELSE Ok(slice(all_days, start_idx, end_idx + 1))
    ELSE LET i == dict_index(days_map, lower(days_str), 1)
         IN  IF i = 0 THEN Raise("KeyError") ELSE Ok(<<days_map[i][2]>>)

\* The two shapes of an entry of apps_config.
AlwaysAllowedEntry == [always_allowed |-> TRUE, schedules |-> EmptyMap, limits |-> EmptyMap]
ScheduledEntry == [always_allowed |-> FALSE, schedules |-> EmptyMap, limits |-> EmptyMap]

\* The body of "for day in ..." of _load_config for the days of one row.
RECURSIVE set_days(_, _, _, _, _)
set_days(entry, days, i, time_ranges, minutes) ==
    IF i > Len(days) THEN entry
    ELSE set_days(
            [entry EXCEPT
                !.schedules = map_set(entry.schedules, days[i], time_ranges),
                !.limits = IF minutes = None THEN entry.limits
                           ELSE map_set(entry.limits, days[i], minutes.v)],
            days, i + 1, time_ranges, minutes)

DefaultDays == <<"m", "o", "n", "-", "s", "u", "n">>
DefaultTimeRanges == <<"0", "0", ":", "0", "0", "-", "2", "3", ":", "5", "9">>

\* One row of the file in _load_config: the new apps_config, or the
\* exception.  An entry {"always_allowed": True} has no "schedules" key, so
\* a later row of the same app with at least one day raises KeyError.
load_row(apps_config, row) ==
    LET app == strip(row.App)
        days == strip(row.Days)
        time_ranges == strip(row.TimeRanges)
        duration == strip(row.MaxDuration)
    IN  IF days = <<>> /\ time_ranges = <<>> /\ duration = <<>>
        THEN Ok(map_set(apps_config, app, AlwaysAllowedEntry))
        ELSE LET config1 == IF app \in DOMAIN apps_config THEN apps_config
                            ELSE map_set(apps_config, app, ScheduledEntry)
                 days1 == IF days = <<>> THEN DefaultDays ELSE days
                 time_ranges1 == IF time_ranges = <<>> THEN DefaultTimeRanges
                                 ELSE time_ranges
                 parsed == _parse_days(days1)
                 minutes == IF duration = <<>> THEN Ok(None)
                            ELSE _parse_duration(duration)
             IN  IF parsed.err # "none" THEN Raise(parsed.err)
                 ELSE IF parsed.val = <<>> THEN Ok(config1)
                 ELSE IF config1[app].always_allowed THEN Raise("KeyError")
                 ELSE IF minutes.err # "none" THEN Raise(minutes.err)
                 ELSE Ok(map_set(config1, app,
                        set_days(config1[app], parsed.val, 1, time_ranges1,
                                 IF duration = <<>> THEN None
                                 ELSE PyInt(minutes.val))))

\* _load_config: the rows in file order; the first exception ends the load.
RECURSIVE load_rows(_, _, _)
load_rows(rows, i, apps_config) ==
    IF i > Len(rows) THEN Ok(apps_config)
    ELSE LET r == load_row(apps_config, rows[i])
         IN  IF r.err # "none" THEN r ELSE load_rows(rows, i + 1, r.val)

_load_config(rows) == load_rows(rows, 1, EmptyMap)

(***************************************************************************)
(* cli.py: the schedule resolver.                                          *)
(***************************************************************************)
\* The digits of n, two wide and zero padded (%H, %M).
two_digits(n) == << chr(48 + (n \div 10)), chr(48 + (n % 10)) >>

\* now.time().strftime("%H:%M")
strftime_HM(now) == two_digits(now.hour) \o <<":">> \o two_digits(now.minute)

\* now.strftime("%A").lower(), weekday 0 being Monday.
strftime_A_lower(now) == all_days[now.weekday + 1]

\* a < b on strings.
str_lt(a, b) == str_le(a, b) /\ a # b

\* match_schedules, were the end of a window left out of it.
RECURSIVE match_schedules_exclusive_end(_, _, _)
match_schedules_exclusive_end(windows, i, hm) ==
    IF i > Len(windows) THEN "nomatch"
    ELSE LET se == split(windows[i], "-")
         IN  IF Len(se) # 2 THEN "ValueError"
             ELSE IF str_le(se[1], hm) /\ str_lt(hm, se[2]) THEN "match"
             ELSE match_schedules_exclusive_end(windows, i + 1, hm)

\* The loop over schedules.split(";"): "match" at the first window that
\* holds the time, "ValueError" at a window that does not split in two.
RECURSIVE match_schedules(_, _, _)
match_schedules(windows, i, hm) ==
    IF i > Len(windows) THEN "nomatch"
    ELSE LET se == split(windows[i], "-")
         IN  IF Len(se) # 2 THEN "ValueError"
             ELSE IF str_le(se[1], hm) /\ str_le(hm, se[2]) THEN "match"
             ELSE match_schedules(windows, i + 1, hm)

\* What _get_expected_limits does for one app: the value it stores, None
\* when it stores nothing, or the exception.
expected_of(settings, now) ==
    LET today == strftime_A_lower(now)
        limit == IF today \in DOMAIN settings.limits
                 THEN PyInt(settings.limits[today]) ELSE None
        schedules == IF today \in DOMAIN settings.schedules
                     THEN settings.schedules[today] ELSE <<>>
    IN  IF settings.always_allowed THEN Ok(True)
        ELSE IF truthy(limit)
        THEN IF schedules # <<>>
             THEN LET m == match_schedules(split(schedules, ";"), 1, strftime_HM(now))
                  IN  IF m = "ValueError" THEN Raise("ValueError")
                      ELSE IF m = "match" THEN Ok(limit) ELSE Ok(None)
             ELSE Ok(limit)
        ELSE Ok(None)

\* _get_expected_limits: the apps that got a value, with it.
_get_expected_limits(config, now) ==
    IF \E app \in DOMAIN config : expected_of(config[app], now).err # "none"
    THEN Raise("ValueError")
    ELSE Ok([app \in {a \in DOMAIN config : expected_of(config[a], now).val # None}
                |-> expected_of(config[app], now).val])

(***************************************************************************)
(* models.py: an app of the answer of appsandusage.  Only the fields the   *)
(* command line tool reads are kept: title, package_name and, of           *)
(* supervision_setting, usage_limit (an optional UsageLimit), hidden and   *)
(* always_allowed_app_info (present and ENABLED, or absent).               *)
(***************************************************************************)
NoUsageLimit == [present |-> FALSE, daily_usage_limit_mins |-> 0]
UsageLimit(mins) == [present |-> TRUE, daily_usage_limit_mins |-> mins]

SupervisionSetting(usage_limit, hidden, always_allowed) ==
    [usage_limit |-> usage_limit, hidden |-> hidden, always_allowed |-> always_allowed]

App(title, package_name, supervision_setting) ==
    [title |-> title, package_name |-> package_name,
     supervision_setting |-> supervision_setting]

(***************************************************************************)
(* client.py: the FamilyLink client.                                       *)
(***************************************************************************)
\* response.raise_for_status() raises unless the status is 2xx.
is_success(status) == status \in 200..299

\* _cache_app_names: {app.title: app.package_name for app in resp.apps}
RECURSIVE cache_from(_, _, _)
cache_from(apps, i, names) ==
    IF i > Len(apps) THEN names
    ELSE cache_from(apps, i + 1, dict_set(names, apps[i].title, apps[i].package_name))

_cache_app_names(apps) == cache_from(apps, 1, <<>>)

\* The loop of _get_app_package_name over self._app_names.items().
RECURSIVE first_title_match(_, _, _)
first_title_match(app_names, name, i) ==
    IF i > Len(app_names) THEN Raise("ValueError")
    ELSE IF contains(lower(app_names[i][1]), lower(name)) THEN Ok(app_names[i][2])
    ELSE first_title_match(app_names, name, i + 1)

\* _get_app_package_name on a cache that is already filled: a name that is
\* a cached package name is returned as it is, else the package of the first
\* cached title that contains the name, letter case ignored.
lookup_package_name(app_names, name) ==
    IF \E i \in 1..Len(app_names) : app_names[i][2] = name THEN Ok(name)
    ELSE first_title_match(app_names, name, 1)

\* The data of an updateRestrictions request.  [[pkg], [1]] hides the app,
\* [[pkg], None, [mins, 1]] caps it, [[pkg], None, None, [1]] always allows
\* it; an absent position is None.
Data(package_name, hide, usage_limit, always_allowed) ==
    [package_name |-> package_name, hide |-> hide, usage_limit |-> usage_limit,
     always_allowed |-> always_allowed]

Get(status) == [method |-> "GET", status |-> status, data |-> None]
Post(status, data) == [method |-> "POST", status |-> status, data |-> data]

\* What one client call did: the exception it raised ("none" when it
\* returned), the requests it sent in order, and the cache it left.
Outcome(err, sent, app_names) == [err |-> err, sent |-> sent, app_names |-> app_names]

\* get_apps_and_usage: one GET; the cache is replaced when it succeeds.
get_apps_and_usage(app_names, apps, status) ==
    IF is_success(status)
    THEN Outcome("none", <<Get(status)>>, _cache_app_names(apps))
    ELSE Outcome("HTTPStatusError", <<Get(status)>>, app_names)

\* update_app_restrictions.  An empty cache forces one fetch (fetch_status,
\* answering apps) before the name is looked up; post_status is the status
\* of the POST, when the call gets that far.
update_app_restrictions(app_names, apps, fetch_status, post_status, app_name, time_limit_minutes, block, always_allow) ==
    LET given == (IF truthy(time_limit_minutes) THEN 1 ELSE 0)
                 + (IF block THEN 1 ELSE 0) + (IF always_allow THEN 1 ELSE 0)
        fetched == IF app_names = <<>>
                   THEN get_apps_and_usage(app_names, apps, fetch_status)
                   ELSE Outcome("none", <<>>, app_names)
        package_name == lookup_package_name(fetched.app_names, app_name)
        data == IF block THEN Data(package_name.val, TRUE, None, FALSE)
                ELSE IF always_allow THEN Data(package_name.val, FALSE, None, TRUE)
                ELSE Data(package_name.val, FALSE, time_limit_minutes, FALSE)
    IN  IF given > 1 THEN Outcome("ValueError", <<>>, app_names)
        ELSE IF fetched.err # "none" THEN fetched
        ELSE IF package_name.err # "none"
        THEN Outcome(package_name.err, fetched.sent, fetched.app_names)
        ELSE IF ~block /\ ~always_allow /\ time_limit_minutes = None
        THEN Outcome("ValueError", fetched.sent, fetched.app_names)
        ELSE Outcome(IF is_success(post_status) THEN "none" ELSE "HTTPStatusError",
                     Append(fetched.sent, Post(post_status, data)),
                     fetched.app_names)

block_app(app_names, apps, fetch_status, post_status, name) ==
    update_app_restrictions(app_names, apps, fetch_status, post_status,
                            name, None, TRUE, FALSE)

\* always_allow_app, were it a copy of block_app with its flag left as it was.
always_allow_app_blocks(app_names, apps, fetch_status, post_status, name) ==
    update_app_restrictions(app_names, apps, fetch_status, post_status,
                            name, None, TRUE, FALSE)

always_allow_app(app_names, apps, fetch_status, post_status, name) ==
    update_app_restrictions(app_names, apps, fetch_status, post_status,
                            name, None, FALSE, TRUE)

remove_app_limit(app_names, apps, fetch_status, post_status, name) ==
    update_app_restrictions(app_names, apps, fetch_status, post_status,
                            name, None, FALSE, FALSE)

set_app_limit(app_names, apps, fetch_status, post_status, name, time_limit_minutes) ==
    update_app_restrictions(app_names, apps, fetch_status, post_status,
                            name, time_limit_minutes, FALSE, FALSE)

(***************************************************************************)
(* cli.py: _apply_config and _create_default_config.                       *)
(***************************************************************************)
ComGoogle == <<"c", "o", "m", ".", "g", "o", "o", "g", "l", "e">>
ComAndroid == <<"c", "o", "m", ".", "a", "n", "d", "r", "o", "i", "d">>

\* The value _apply_config stores in current_limit_per_app for one app, and
\* whether it stores one: the cap, False for a hidden app, True for an always
\* allowed one, None for an app under no supervision that is not a system
\* app; a system app under no supervision is left out.
current_limit_of(app) ==
    LET setting == app.supervision_setting
    IN  IF setting.usage_limit.present
        THEN Ok(PyInt(setting.usage_limit.daily_usage_limit_mins))
        ELSE IF setting.hidden THEN Ok(False)
        ELSE IF setting.always_allowed THEN Ok(True)
        ELSE IF ~(startswith(app.package_name, ComGoogle)
                  \/ startswith(app.package_name, ComAndroid))
        THEN Ok(None)
        ELSE Raise("skip")

RECURSIVE current_from(_, _, _)
current_from(apps, i, current) ==
    IF i > Len(apps) THEN current
    ELSE LET c == current_limit_of(apps[i])
         IN  current_from(apps, i + 1,
                IF c.err = "none" THEN dict_set(current, apps[i].title, c.val)
                ELSE current)

current_limit_per_app_of(apps) == current_from(apps, 1, <<>>)

\* The actions of one pass of the loop of _apply_config.
NoOp(app) == [kind |-> "NoOp", app |-> app, minutes |-> None]
AlwaysAllow(app) == [kind |-> "AlwaysAllow", app |-> app, minutes |-> None]
SetLimit(app, minutes) == [kind |-> "SetLimit", app |-> app, minutes |-> minutes]
Block(app) == [kind |-> "Block", app |-> app, minutes |-> None]

\* decide, were the test "limit is not False" left out.
decide_always_blocks(expected, app, limit) ==
    LET expected_limit == map_get(expected, app)
    IN  IF truthy(expected_limit)
        THEN IF py_eq(expected_limit, limit) THEN NoOp(app)
             ELSE IF expected_limit = True THEN AlwaysAllow(app)
             ELSE SetLimit(app, expected_limit)
        ELSE Block(app)

\* decide, were the test "elif limit:" written for "elif limit is not False:".
decide_blocks_truthy(expected, app, limit) ==
    LET expected_limit == map_get(expected, app)
    IN  IF truthy(expected_limit)
        THEN IF py_eq(expected_limit, limit) THEN NoOp(app)
             ELSE IF expected_limit = True THEN AlwaysAllow(app)
             ELSE SetLimit(app, expected_limit)
        ELSE IF truthy(limit) THEN Block(app)
        ELSE NoOp(app)

\* The branch the loop body takes for one app of current_limit_per_app.
decide(expected, app, limit) ==
    LET expected_limit == map_get(expected, app)
    IN  IF truthy(expected_limit)
        THEN IF py_eq(expected_limit, limit) THEN NoOp(app)
             ELSE IF expected_limit = True THEN AlwaysAllow(app)
             ELSE SetLimit(app, expected_limit)
        ELSE IF limit # False THEN Block(app)
        ELSE NoOp(app)

\* The client call of an action ("if not dry_run: client. ...").
apply_action(app_names, apps, fetch_status, post_status, action) ==
    IF action.kind = "AlwaysAllow"
    THEN always_allow_app(app_names, apps, fetch_status, post_status, action.app)
    ELSE IF action.kind = "SetLimit"
    THEN set_app_limit(app_names, apps, fetch_status, post_status, action.app,
                       action.minutes)
    ELSE IF action.kind = "Block"
    THEN block_app(app_names, apps, fetch_status, post_status, action.app)
    ELSE Outcome("none", <<>>, app_names)

\* call_client, were "if not dry_run:" missing before client.block_app.
call_client_blocks_in_dry_run(is_dry_run, app_names, apps, fetch_status, post_status, action) ==
    IF is_dry_run /\ action.kind # "Block" THEN Outcome("none", <<>>, app_names)
    ELSE apply_action(app_names, apps, fetch_status, post_status, action)

\* "if not dry_run:" before each client call of the loop.
call_client(is_dry_run, app_names, apps, fetch_status, post_status, action) ==
    IF is_dry_run THEN Outcome("none", <<>>, app_names)
    ELSE apply_action(app_names, apps, fetch_status, post_status, action)

\* sorted(apps, key=lambda x: x.title): stable, by string order.
RECURSIVE insert_by_title(_, _)
insert_by_title(sorted_apps, app) ==
    IF sorted_apps = <<>> THEN <<app>>
    ELSE IF str_le(sorted_apps[Len(sorted_apps)].title, app.title)
    THEN Append(sorted_apps, app)
    ELSE Append(insert_by_title(SubSeq(sorted_apps, 1, Len(sorted_apps) - 1), app),
                sorted_apps[Len(sorted_apps)])

RECURSIVE sorted_by_title(_, _, _)
sorted_by_title(apps, i, acc) ==
    IF i > Len(apps) THEN acc
    ELSE sorted_by_title(apps, i + 1, insert_by_title(acc, apps[i]))

Row(app, max_duration, days, time_ranges) ==
    [App |-> app, MaxDuration |-> max_duration, Days |-> days,
     TimeRanges |-> time_ranges]

\* The rows _create_default_config writes: one per app, "0:00", no days and
\* no time ranges.
default_rows(apps) ==
    LET by_title == sorted_by_title(apps, 1, <<>>)
    IN  [i \in 1..Len(by_title) |->
            Row(by_title[i].title, <<"0", ":", "0", "0">>, <<>>, <<>>)]

(***************************************************************************)
(* The remote service.  The repository holds no code of it; the model      *)
(* keeps the restriction a successful updateRestrictions request names as  *)
(* the restriction of that package.                                        *)
(***************************************************************************)
service_update(apps, data) ==
    [i \in 1..Len(apps) |->
        IF apps[i].package_name = data.package_name
        THEN [apps[i] EXCEPT !.supervision_setting =
                SupervisionSetting(
                    IF data.usage_limit = None THEN NoUsageLimit
                    ELSE UsageLimit(data.usage_limit.v),
                    data.hide, data.always_allowed)]
        ELSE apps[i]]

RECURSIVE service_handle(_, _, _)
service_handle(apps, sent, i) ==
    IF i > Len(sent) THEN apps
    ELSE service_handle(
            IF sent[i].method = "POST" /\ is_success(sent[i].status)
            THEN service_update(apps, sent[i].data) ELSE apps,
            sent, i + 1)

(***************************************************************************)
(* The inputs of a run.                                                    *)
(***************************************************************************)
\* Titles and package names of the apps of the account.  "tv" is part of
\* the title "TV2" when letter case is ignored, and the title "org.tv" is
\* the package name of "tv".
T_tv == <<"t", "v">>
T_TV2 == <<"T", "V", "2">>
T_org_tv == <<"o", "r", "g", ".", "t", "v">>
P_org_tv == <<"o", "r", "g", ".", "t", "v">>
P_org_tv2 == <<"o", "r", "g", ".", "t", "v", "2">>
P_com_google_tv == <<"c", "o", "m", ".", "g", "o", "o", "g", "l", "e", ".", "t", "v">>

Catalogue ==
    { <<T_tv, P_org_tv>>, <<T_TV2, P_org_tv2>>, <<T_org_tv, P_com_google_tv>> }

Titles == { k[1] : k \in Catalogue }

\* The restrictions an app can be fetched with: a cap of 0 or 1 minute,
\* hidden, always allowed, or none.
Settings ==
    { SupervisionSetting(UsageLimit(0), FALSE, FALSE),
      SupervisionSetting(UsageLimit(1), FALSE, FALSE),
      SupervisionSetting(NoUsageLimit, TRUE, FALSE),
      SupervisionSetting(NoUsageLimit, FALSE, TRUE),
      SupervisionSetting(NoUsageLimit, FALSE, FALSE) }

AppsOfCatalogue == { App(k[1], k[2], st) : k \in Catalogue, st \in Settings }

\* The answers of the service: up to MaxApps apps, no package twice.
Remotes ==
    UNION { { apps \in [1..n -> AppsOfCatalogue] :
                \A i, j \in 1..n : i # j => apps[i].package_name # apps[j].package_name }
            : n \in 0..MaxApps }

\* HTTP statuses of an answer.
Statuses == {200, 500}

\* Field values of configuration rows.
D_empty == <<>>
D_0_00 == <<"0", ":", "0", "0">>
D_0_01 == <<"0", ":", "0", "1">>
D_1_30 == <<"1", ":", "3", "0">>
D_x == <<"x">>
Days_Mon_Wed == <<"M", "o", "n", "-", "W", "e", "d">>
Days_Wed_Mon == <<"W", "e", "d", "-", "M", "o", "n">>
Days_Foo == <<"F", "o", "o">>
TR_two ==
    <<"0", "8", ":", "0", "0", "-", "0", "9", ":", "0", "0", ";",
      "1", "7", ":", "0", "0", "-", "1", "8", ":", "0", "0">>

\* Configurations with at most one row for "tv" and for "TV2", days and
\* time ranges empty: an always allowed row, a cap of 1 minute or a cap of
\* 90 minutes.  "org.tv" has no row.
PlainDurations == {D_empty, D_0_01, D_1_30}

row_or_none(title, choice) ==
    IF choice = <<"-">> THEN <<>> ELSE <<Row(title, choice, <<>>, <<>>)>>

PlainConfigs ==
    { row_or_none(T_tv, c[1]) \o row_or_none(T_TV2, c[2])
        : c \in [1..2 -> PlainDurations \cup {<<"-">>}] }

\* Rows of schedules for one app: every combination of no duration, "0:00"
\* and "1:30", of every day and Monday to Wednesday, of the whole day and two
\* windows; and one row for each way a row can be wrong: a range of days that
\* ends before it starts, a day that is none, a duration that is no number.
ScheduleRows ==
    { Row(T_tv, d, days, tr) :
        d \in {D_empty, D_0_00, D_1_30},
        days \in {<<>>, Days_Mon_Wed},
        tr \in {<<>>, TR_two} }
    \cup { Row(T_tv, D_1_30, Days_Wed_Mon, <<>>),
           Row(T_tv, D_1_30, Days_Foo, <<>>),
           Row(T_tv, D_x, <<>>, <<>>) }

ScheduleConfigs == UNION { [1..n -> ScheduleRows] : n \in 0..MaxRows }

\* Instants: Tuesday and Thursday, before the first window of TR_two, at its
\* first minute, between the windows, and at the last minute of the second.
Instants ==
    { [weekday |-> w, hour |-> t[1], minute |-> t[2]] :
        w \in {1, 3}, t \in { <<7, 59>>, <<8, 0>>, <<12, 0>>, <<18, 0>> } }

Noon == [weekday |-> 1, hour |-> 12, minute |-> 0]

\* The account the schedule runs are held against.
FetchedApps ==
    << App(T_tv, P_org_tv, SupervisionSetting(UsageLimit(1), FALSE, FALSE)),
       App(T_TV2, P_org_tv2, SupervisionSetting(NoUsageLimit, FALSE, FALSE)) >>

\* Names a caller of the client passes: titles, a package name, and the name
\* of no app.
T_zz == <<"z", "z">>
Names == Titles \cup {P_org_tv2, T_zz}

(***************************************************************************)
(* The state of a run of main(), and of a session of the client.           *)
(***************************************************************************)
VARIABLES
    pc,                     \* where the run is: main, apply, loop, done, raised, client
    dry_run,                \* args.dry_run
    config_file,            \* the file at args.config_file: whether it exists, its rows
    now,                    \* the instant datetime.now() returns
    remote,                 \* the apps of the account, as the service holds them
    apps_config,            \* config of main
    expected_limits,        \* of _apply_config
    current_limit_per_app,  \* of _apply_config, an ordered dict
    idx,                    \* the item of current_limit_per_app the loop is at
    _app_names,             \* client._app_names, an ordered dict
    actions,                \* the action of every loop pass so far
    requests,               \* the requests sent to the service, in order
    error,                  \* the exception that ended the run, and where it rose
    ops                     \* the calls of a client session with their outcomes

vars == << pc, dry_run, config_file, now, remote, apps_config, expected_limits,
           current_limit_per_app, idx, _app_names, actions, requests, error, ops >>

NoError == [type |-> "none", raised_in |-> "none"]
Raised(type, raised_in) == [type |-> type, raised_in |-> raised_in]

InitRun ==
    /\ apps_config = EmptyMap
    /\ expected_limits = EmptyMap
    /\ current_limit_per_app = <<>>
    /\ idx = 0
    /\ _app_names = <<>>
    /\ actions = <<>>
    /\ requests = <<>>
    /\ error = NoError
    /\ ops = <<>>

\* Runs on every account against the plain configurations.
Init ==
    /\ InitRun
    /\ pc = "main"
    /\ dry_run \in BOOLEAN
    /\ remote \in Remotes
    /\ now = Noon
    /\ config_file \in
         { [exists |-> TRUE, rows |-> c] : c \in PlainConfigs }
           \cup { [exists |-> FALSE, rows |-> <<>>] }

\* Runs of every schedule configuration at every instant on one account.
ScheduleInit ==
    /\ InitRun
    /\ pc = "main"
    /\ dry_run = FALSE
    /\ remote = FetchedApps
    /\ now \in Instants
    /\ config_file \in
         { [exists |-> TRUE, rows |-> c] : c \in ScheduleConfigs }
           \cup { [exists |-> FALSE, rows |-> <<>>] }

\* main, when the file exists: config = _load_config(args.config_file).
LoadConfig ==
    /\ pc = "main"
    /\ config_file.exists
    /\ LET loaded == _load_config(config_file.rows)
       IN  IF loaded.err = "none"
           THEN /\ apps_config' = loaded.val
                /\ pc' = "apply"
                /\ error' = error
           ELSE /\ apps_config' = apps_config
                /\ pc' = "raised"
                /\ error' = Raised(loaded.err, "_load_config")
    /\ UNCHANGED << dry_run, config_file, now, remote, expected_limits,
                    current_limit_per_app, idx, _app_names, actions, requests, ops >>

\* CreateDefaultConfig, were the "return" after _create_default_config
\* missing: main goes on to load the file it has just written.
CreateDefaultConfig_goes_on ==
    /\ pc = "main"
    /\ ~config_file.exists
    /\ \E status \in Statuses :
          LET fetched == get_apps_and_usage(_app_names, remote, status)
          IN  /\ requests' = requests \o fetched.sent
              /\ _app_names' = fetched.app_names
              /\ IF fetched.err = "none"
                 THEN /\ config_file' = [exists |-> TRUE, rows |-> default_rows(remote)]
                      /\ pc' = "main"
                      /\ error' = error
                 ELSE /\ config_file' = config_file
                      /\ pc' = "raised"
                      /\ error' = Raised(fetched.err, "_create_default_config")
    /\ UNCHANGED << dry_run, now, remote, apps_config, expected_limits,
                    current_limit_per_app, idx, actions, ops >>

\* main, when the file is missing: _create_default_config, then return.
CreateDefaultConfig ==
    /\ pc = "main"
    /\ ~config_file.exists
    /\ \E status \in Statuses :
          LET fetched == get_apps_and_usage(_app_names, remote, status)
          IN  /\ requests' = requests \o fetched.sent
              /\ _app_names' = fetched.app_names
              /\ IF fetched.err = "none"
                 THEN /\ config_file' = [exists |-> TRUE, rows |-> default_rows(remote)]
                      /\ pc' = "done"
                      /\ error' = error
                 ELSE /\ config_file' = config_file
                      /\ pc' = "raised"
                      /\ error' = Raised(fetched.err, "_create_default_config")
    /\ UNCHANGED << dry_run, now, remote, apps_config, expected_limits,
                    current_limit_per_app, idx, actions, ops >>

\* _apply_config up to its loop: the expected limits, then the fetch.
ApplyConfigFetch ==
    /\ pc = "apply"
    /\ LET expected == _get_expected_limits(apps_config, now)
       IN  IF expected.err # "none"
           THEN /\ pc' = "raised"
                /\ error' = Raised(expected.err, "_get_expected_limits")
                /\ UNCHANGED << expected_limits, current_limit_per_app, idx,
                                _app_names, requests >>
           ELSE \E status \in Statuses :
                  LET fetched == get_apps_and_usage(_app_names, remote, status)
                  IN  /\ expected_limits' = expected.val
                      /\ requests' = requests \o fetched.sent
                      /\ _app_names' = fetched.app_names
                      /\ IF fetched.err = "none"
                         THEN /\ current_limit_per_app' = current_limit_per_app_of(remote)
                              /\ idx' = 1
                              /\ pc' = "loop"
                              /\ error' = error
                         ELSE /\ current_limit_per_app' = current_limit_per_app
                              /\ idx' = idx
                              /\ pc' = "raised"
                              /\ error' = Raised(fetched.err, "_apply_config")
    /\ UNCHANGED << dry_run, config_file, now, remote, apps_config, actions, ops >>

\* ApplyConfigStep, were each client call of the loop wrapped in a try whose
\* handler goes on to the next app.
ApplyConfigStep_goes_on ==
    /\ pc = "loop"
    /\ idx <= Len(current_limit_per_app)
    /\ LET action == decide(expected_limits, current_limit_per_app[idx][1],
                            current_limit_per_app[idx][2])
           calls == ~dry_run /\ action.kind # "NoOp"
       IN  \E fetch_status \in (IF calls /\ _app_names = <<>> THEN Statuses ELSE {200}),
              post_status \in (IF calls THEN Statuses ELSE {200}) :
              LET called == call_client(dry_run, _app_names, remote, fetch_status,
                                        post_status, action)
              IN  /\ actions' = Append(actions, action)
                  /\ requests' = requests \o called.sent
                  /\ remote' = service_handle(remote, called.sent, 1)
                  /\ _app_names' = called.app_names
                  /\ idx' = idx + 1
                  /\ pc' = pc
                  /\ error' = error
    /\ UNCHANGED << dry_run, config_file, now, apps_config, expected_limits,
                    current_limit_per_app, ops >>

\* One pass of "for app, limit in current_limit_per_app.items()".
ApplyConfigStep ==
    /\ pc = "loop"
    /\ idx <= Len(current_limit_per_app)
    /\ LET action == decide(expected_limits, current_limit_per_app[idx][1],
                            current_limit_per_app[idx][2])
           calls == ~dry_run /\ action.kind # "NoOp"
       IN  \E fetch_status \in (IF calls /\ _app_names = <<>> THEN Statuses ELSE {200}),
              post_status \in (IF calls THEN Statuses ELSE {200}) :
              LET called == call_client(dry_run, _app_names, remote, fetch_status,
                                        post_status, action)
              IN  /\ actions' = Append(actions, action)
                  /\ requests' = requests \o called.sent
                  /\ remote' = service_handle(remote, called.sent, 1)
                  /\ _app_names' = called.app_names
                  /\ IF called.err = "none"
                     THEN /\ idx' = idx + 1
                          /\ pc' = pc
                          /\ error' = error
                     ELSE /\ idx' = idx
                          /\ pc' = "raised"
                          /\ error' = Raised(called.err, "_apply_config")
    /\ UNCHANGED << dry_run, config_file, now, apps_config, expected_limits,
                    current_limit_per_app, ops >>

\* The loop is over: _apply_config and main return.
ApplyConfigReturn ==
    /\ pc = "loop"
    /\ idx > Len(current_limit_per_app)
    /\ pc' = "done"
    /\ UNCHANGED << dry_run, config_file, now, remote, apps_config, expected_limits,
                    current_limit_per_app, idx, _app_names, actions, requests,
                    error, ops >>

Next ==
    \/ LoadConfig
    \/ CreateDefaultConfig
    \/ ApplyConfigFetch
    \/ ApplyConfigStep
    \/ ApplyConfigReturn

Spec == Init /\ [][Next]_vars

ScheduleSpec == ScheduleInit /\ [][Next]_vars

(***************************************************************************)
(* A session of a caller of the client library: the fetch and the four     *)
(* write operations, called in any order.                                  *)
(***************************************************************************)
\* Whether the cache knows the name: as a title or as a package name.
known_name(app_names, name) ==
    \E i \in 1..Len(app_names) : app_names[i][1] = name \/ app_names[i][2] = name

\* Minutes a caller passes to set_app_limit.
CallerMinutes == {PyInt(0), PyInt(30)}

ClientInit ==
    /\ InitRun
    /\ pc = "client"
    /\ dry_run = FALSE
    /\ remote = FetchedApps
    /\ now = Noon
    /\ config_file = [exists |-> FALSE, rows |-> <<>>]

\* The bookkeeping of one call: what was sent, what the service did with
\* it, the cache, and the record of the call.
ClientDid(op, name, outcome) ==
    /\ ops' = Append(ops, [op |-> op, name |-> name,
                           known |-> known_name(_app_names, name),
                           err |-> outcome.err, sent |-> outcome.sent])
    /\ requests' = requests \o outcome.sent
    /\ remote' = service_handle(remote, outcome.sent, 1)
    /\ _app_names' = outcome.app_names
    /\ UNCHANGED << pc, dry_run, config_file, now, apps_config, expected_limits,
                    current_limit_per_app, idx, actions, error >>

ClientGetAppsAndUsage ==
    /\ pc = "client"
    /\ Len(ops) < MaxCalls
    /\ \E status \in Statuses :
          ClientDid("get_apps_and_usage", <<>>,
                    get_apps_and_usage(_app_names, remote, status))

ClientSetAppLimit ==
    /\ pc = "client"
    /\ Len(ops) < MaxCalls
    /\ \E name \in Names, minutes \in CallerMinutes,
          fetch_status \in (IF _app_names = <<>> THEN Statuses ELSE {200}),
          post_status \in Statuses :
          ClientDid("set_app_limit", name,
                    set_app_limit(_app_names, remote, fetch_status, post_status,
                                  name, minutes))

ClientAlwaysAllowApp ==
    /\ pc = "client"
    /\ Len(ops) < MaxCalls
    /\ \E name \in Names,
          fetch_status \in (IF _app_names = <<>> THEN Statuses ELSE {200}),
          post_status \in Statuses :
          ClientDid("always_allow_app", name,
                    always_allow_app(_app_names, remote, fetch_status, post_status,
                                     name))

ClientBlockApp ==
    /\ pc = "client"
    /\ Len(ops) < MaxCalls
    /\ \E name \in Names,
          fetch_status \in (IF _app_names = <<>> THEN Statuses ELSE {200}),
          post_status \in Statuses :
          ClientDid("block_app", name,
                    block_app(_app_names, remote, fetch_status, post_status, name))

ClientRemoveAppLimit ==
    /\ pc = "client"
    /\ Len(ops) < MaxCalls
    /\ \E name \in Names,
          fetch_status \in (IF _app_names = <<>> THEN Statuses ELSE {200}),
          post_status \in Statuses :
          ClientDid("remove_app_limit", name,
                    remove_app_limit(_app_names, remote, fetch_status, post_status,
                                     name))

ClientNext ==
    \/ ClientGetAppsAndUsage
    \/ ClientSetAppLimit
    \/ ClientAlwaysAllowApp
    \/ ClientBlockApp
    \/ ClientRemoveAppLimit

ClientSpec == ClientInit /\ [][ClientNext]_vars

(***************************************************************************)
(* The properties.                                                         *)
(***************************************************************************)
\* The requests of a sequence that are writes.
is_post(request) == request.method = "POST"
posts_of(sent) == SelectSeq(sent, is_post)

\* The current value of an app once an action is applied to it: SetLimit
\* leaves the cap, AlwaysAllow True, Block False, NoOp what there was.
hypothetical(limit, action) ==
    IF action.kind = "SetLimit" THEN action.minutes
    ELSE IF action.kind = "AlwaysAllow" THEN True
    ELSE IF action.kind = "Block" THEN False
    ELSE limit

(* C1: the reconciler is idempotent.  Whatever the expected limits and the
   current limits of a run, when each action of the pass is applied to the
   current limit of its app and the loop body decides again against the same
   expected limits, it decides NoOp for every app: a second pass writes
   nothing. *)
C1_Idempotent ==
    \A i \in 1..Len(actions) :
        decide(expected_limits, current_limit_per_app[i][1],
               hypothetical(current_limit_per_app[i][2], actions[i])).kind = "NoOp"

\* A finished pass that set a cap, allowed an app for ever or blocked one.
C1_Witness ==
    /\ pc = "done"
    /\ \E i \in 1..Len(actions) : actions[i].kind \in {"SetLimit", "AlwaysAllow"}
    /\ \E i \in 1..Len(actions) : actions[i].kind = "Block"

(* C2: for an app of the current state that has an expected entry, NoOp is
   decided only when the expected and the current value are the same value
   of the same type (True only against True, a cap only against the same
   cap), and AlwaysAllow or SetLimit is decided in every other case. *)
C2_NoOpOnlyOnExactEquality ==
    \A i \in 1..Len(actions) :
        LET app == current_limit_per_app[i][1]
            limit == current_limit_per_app[i][2]
        IN  app \in DOMAIN expected_limits =>
              /\ actions[i].kind = "NoOp" => expected_limits[app] = limit
              /\ expected_limits[app] # limit =>
                    actions[i].kind \in {"AlwaysAllow", "SetLimit"}

(* C3: for an app of the current state that has no expected entry, NoOp is
   decided if and only if the current value is exactly False, and Block is
   decided for every other current value: None, True and every cap, the cap
   of 0 minutes too. *)
C3_OmittedAppIsBlockedUnlessHidden ==
    \A i \in 1..Len(actions) :
        LET app == current_limit_per_app[i][1]
            limit == current_limit_per_app[i][2]
        IN  app \notin DOMAIN expected_limits =>
              /\ actions[i].kind = "NoOp" <=> limit = False
              /\ limit # False => actions[i].kind = "Block"

\* A pass that blocked an app capped at 0 minutes and left a hidden app.
C3_Witness ==
    /\ \E i \in 1..Len(actions) :
          /\ current_limit_per_app[i][1] \notin DOMAIN expected_limits
          /\ current_limit_per_app[i][2] = PyInt(0)
          /\ actions[i].kind = "Block"
    /\ \E i \in 1..Len(actions) :
          /\ current_limit_per_app[i][1] \notin DOMAIN expected_limits
          /\ current_limit_per_app[i][2] = False
          /\ actions[i].kind = "NoOp"
\* What the configuration file format asks of a row.
row_is_blank(row) ==
    strip(row.Days) = <<>> /\ strip(row.TimeRanges) = <<>> /\ strip(row.MaxDuration) = <<>>

\* The place of a day in the week, Monday being 1; 0 for no day.
day_number(day) == dict_index(days_map, lower(day), 1)

\* Days is empty, a day, or a range of days that does not end before it starts.
days_are_valid(days) ==
    \/ days = <<>>
    \/ day_number(days) > 0
    \/ LET parts == split(days, "-")
       IN  /\ Len(parts) = 2
           /\ day_number(parts[1]) > 0
           /\ day_number(parts[2]) > 0
           /\ day_number(parts[1]) <= day_number(parts[2])

all_digits(part) == part # <<>> /\ \A i \in 1..Len(part) : IsDigit(part[i])

\* Max Duration is empty or H:MM, both parts numbers.
duration_is_numeric(duration) ==
    \/ duration = <<>>
    \/ LET parts == split(duration, ":")
       IN  Len(parts) = 2 /\ all_digits(parts[1]) /\ all_digits(parts[2])

row_is_wrong(row) ==
    ~days_are_valid(strip(row.Days)) \/ ~duration_is_numeric(strip(row.MaxDuration))

some_row_is_wrong == \E i \in 1..Len(config_file.rows) : row_is_wrong(config_file.rows[i])

\* The run is past the computation of the expected limits and the fetch.
resolved == pc \in {"loop", "done"}

(* C4: when the file holds, for some app, a row whose Days, Time Ranges and
   Max Duration are all empty, the load succeeds and the expected value of
   the app is True at every instant, whatever other rows the app has and
   wherever they stand in the file. *)
C4_BlankRowMeansAlwaysAllowed ==
    LET marked == { strip(config_file.rows[i].App) :
                      i \in { j \in 1..Len(config_file.rows) :
                                row_is_blank(config_file.rows[j]) } }
    IN  /\ marked # {} => error.raised_in # "_load_config"
        /\ resolved => \A app \in marked : map_get(expected_limits, app) = True

\* The day has a cap and the whole day for its only window.
cap_without_window(settings, today) ==
    /\ ~settings.always_allowed
    /\ today \in DOMAIN settings.limits
    /\ today \in DOMAIN settings.schedules => settings.schedules[today] = DefaultTimeRanges

(* C5: when the rows of the file are well formed and give an app a cap for
   today and no time window for today, the expected value of the app is the
   cap at every instant of the day, for every cap of 0 minutes or more: the
   app is not left out of the expected limits. *)
C5_CapWithoutWindowIsExpected ==
    resolved /\ ~some_row_is_wrong =>
        \A app \in DOMAIN apps_config :
            LET settings == apps_config[app]
                today == strftime_A_lower(now)
            IN  cap_without_window(settings, today) /\ settings.limits[today] >= 0
                    => map_get(expected_limits, app) = PyInt(settings.limits[today])

\* "HH:MM" as minutes since midnight.
minutes_of(hm) == int(SubSeq(hm, 1, 2)) * 60 + int(SubSeq(hm, 4, 5))

\* The instant is in the window "HH:MM-HH:MM", both ends in it.
window_holds(window, instant) ==
    LET ends == split(window, "-")
        minute_of_day == instant.hour * 60 + instant.minute
    IN  minutes_of(ends[1]) <= minute_of_day /\ minute_of_day <= minutes_of(ends[2])

in_some_window(schedules, instant) ==
    LET windows == split(schedules, ";")
    IN  \E i \in 1..Len(windows) : window_holds(windows[i], instant)

(* C6: for an app with a cap above 0 and one or more time windows today, the
   expected value is the cap if and only if the time of day is in one of the
   windows, the first and the last minute of a window included; when it is in
   none, the app has no expected entry at all. *)
C6_CapAppliesInsideWindowsOnly ==
    resolved =>
        \A app \in DOMAIN apps_config :
            LET settings == apps_config[app]
                today == strftime_A_lower(now)
            IN  (/\ ~settings.always_allowed
                 /\ today \in DOMAIN settings.limits
                 /\ settings.limits[today] > 0
                 /\ today \in DOMAIN settings.schedules)
                =>  IF in_some_window(settings.schedules[today], now)
                    THEN map_get(expected_limits, app) = PyInt(settings.limits[today])
                    ELSE app \notin DOMAIN expected_limits

\* At 18:00, the last minute of the second of two windows, the cap of 90
\* minutes is expected.
C6_Witness ==
    /\ resolved
    /\ now.hour = 18
    /\ T_tv \in DOMAIN apps_config
    /\ strftime_A_lower(now) \in DOMAIN apps_config[T_tv].schedules
    /\ apps_config[T_tv].schedules[strftime_A_lower(now)] = TR_two
    /\ map_get(expected_limits, T_tv) = PyInt(90)

\* At 12:00, between the two windows, the app has no expected entry.
C6_WitnessOutside ==
    /\ resolved
    /\ now.hour = 12
    /\ T_tv \in DOMAIN apps_config
    /\ strftime_A_lower(now) \in DOMAIN apps_config[T_tv].limits
    /\ apps_config[T_tv].limits[strftime_A_lower(now)] = 90
    /\ apps_config[T_tv].schedules[strftime_A_lower(now)] = TR_two
    /\ T_tv \notin DOMAIN expected_limits

(* C7: in dry-run mode a run writes nothing: of the requests it sends none
   is an updateRestrictions call, the one request there can be is the fetch
   of the current state, and no step of the run changes the restrictions the
   service holds. *)
C7_DryRunWritesNothing ==
    /\ [](dry_run => posts_of(requests) = <<>> /\ Len(requests) <= 1)
    /\ [][dry_run => remote' = remote]_vars

\* A finished dry run whose pass decided to block an app and to set a cap or
\* an always-allow, with the fetch for its only request.
C7_Witness ==
    /\ dry_run
    /\ pc = "done"
    /\ \E i \in 1..Len(actions) : actions[i].kind = "Block"
    /\ \E i \in 1..Len(actions) : actions[i].kind \in {"SetLimit", "AlwaysAllow"}
    /\ Len(requests) = 1
    /\ requests[1].method = "GET"

\* The actions that call the client.
is_write(action) == action.kind # "NoOp"
writes_of(decided) == SelectSeq(decided, is_write)

\* The data of a request is that of the action: the cap for SetLimit, the
\* always-allow marker for AlwaysAllow, the hide marker for Block.
data_matches(data, action) ==
    IF action.kind = "SetLimit"
    THEN data.usage_limit = action.minutes /\ ~data.hide /\ ~data.always_allowed
    ELSE IF action.kind = "AlwaysAllow"
    THEN data.always_allowed /\ data.usage_limit = None /\ ~data.hide
    ELSE data.hide /\ data.usage_limit = None /\ ~data.always_allowed

(* C8: in a run that is not a dry run and in which no call has failed, the
   updateRestrictions calls sent so far are, one for one and in order, the
   actions other than NoOp decided so far, each of the kind of its action
   (the cap, the always-allow marker, the hide marker), the only other
   request is the one fetch, and the actions are those of the apps of the
   current state in its order. *)
C8_OneCallPerAction ==
    ~dry_run /\ error = NoError =>
        LET posts == posts_of(requests)
            writes == writes_of(actions)
        IN  /\ Len(posts) = Len(writes)
            /\ \A i \in 1..Len(posts) : data_matches(posts[i].data, writes[i])
            /\ Len(requests) <= Len(posts) + 1
            /\ \A i \in 1..Len(actions) : actions[i].app = current_limit_per_app[i][1]

\* A finished run that sent a cap and an always-allow marker.
C8_Witness ==
    /\ ~dry_run
    /\ pc = "done"
    /\ error = NoError
    /\ Len(posts_of(requests)) = 2
    /\ \E i \in 1..Len(actions) : actions[i].kind = "SetLimit"
    /\ \E i \in 1..Len(actions) : actions[i].kind = "AlwaysAllow"

WriteOperations == {"set_app_limit", "always_allow_app", "block_app", "remove_app_limit"}

(* C9: each of the four write operations of the client, called with a name
   the cache knows, sends one updateRestrictions request and raises only
   when the answer to it is not a 2xx; remove_app_limit sends one request and
   returns when the service answers with success. *)
C9_WriteIsOneRoundTrip ==
    \A i \in 1..Len(ops) :
        ops[i].op \in WriteOperations /\ ops[i].known =>
            /\ Len(ops[i].sent) = 1
            /\ ops[i].sent[1].method = "POST"
            /\ ops[i].err # "none" => ~is_success(ops[i].sent[1].status)

(* C10: every parse error of the configuration ends the run: when a row has
   a day range that is malformed or ends before it starts, or a Max Duration
   that is no number, the load raises, and the run neither fetches the state
   nor writes. *)
C10_ParseErrorsAreFatal ==
    some_row_is_wrong =>
        /\ pc \in {"main", "raised"}
        /\ pc = "raised" => error.raised_in = "_load_config"
        /\ requests = <<>>

\* A write the service answered with a status that is no success.
failed_write(request) == is_post(request) /\ ~is_success(request.status)

\* The restriction the data of a write names.
setting_of(data) ==
    SupervisionSetting(IF data.usage_limit = None THEN NoUsageLimit
                       ELSE UsageLimit(data.usage_limit.v),
                       data.hide, data.always_allowed)

\* The write at i is accepted and no later accepted write names its package.
last_accepted(sent, i) ==
    /\ is_post(sent[i])
    /\ is_success(sent[i].status)
    /\ \A j \in (i + 1)..Len(sent) :
          is_post(sent[j]) /\ is_success(sent[j].status)
              => sent[j].data.package_name # sent[i].data.package_name

\* The service holds, for every package, what the last accepted write of the
\* run named for it.
accepted_writes_stand ==
    \A i \in 1..Len(requests) :
        last_accepted(requests, i) =>
            \A k \in 1..Len(remote) :
                remote[k].package_name = requests[i].data.package_name
                    => remote[k].supervision_setting = setting_of(requests[i].data)

(* C11: in a run that is no dry run, a write call that fails ends the pass
   with the error raised: the refused write is the last request of the run,
   the run is over with the exception of the call, the action of the failed
   call is the last one the loop decided, and the apps after it get no call.
   The failing step sends its write once and changes nothing the service
   holds, and the writes the service accepted before it stand as they were
   accepted. *)
C11_FailedWriteEndsThePass ==
    /\ [](~dry_run =>
            /\ \A i \in 1..Len(requests) :
                  failed_write(requests[i]) =>
                      /\ i = Len(requests)
                      /\ pc = "raised"
                      /\ error = Raised("HTTPStatusError", "_apply_config")
            /\ error.raised_in = "_apply_config" /\ actions # <<>> =>
                  /\ pc = "raised"
                  /\ Len(actions) = idx
                  /\ is_write(actions[idx])
                  /\ Len(posts_of(requests)) <= Len(writes_of(actions))
            /\ accepted_writes_stand)
    /\ [][~dry_run /\ error' # error =>
            /\ remote' = remote
            /\ Len(posts_of(requests')) <= Len(posts_of(requests)) + 1]_vars

\* The first write of a pass over two apps is refused: the run is over, and
\* the second app, which the loop would have written to, got no call.
C11_Witness ==
    /\ ~dry_run
    /\ pc = "raised"
    /\ Len(current_limit_per_app) = 2
    /\ idx = 1
    /\ Len(posts_of(requests)) = 1
    /\ failed_write(requests[Len(requests)])
    /\ is_write(decide(expected_limits, current_limit_per_app[2][1],
                       current_limit_per_app[2][2]))

\* The second write of a pass is refused after the first was accepted: the
\* service keeps what the first write set.
C11_WitnessAfterAcceptedWrite ==
    /\ ~dry_run
    /\ pc = "raised"
    /\ idx = 2
    /\ Len(posts_of(requests)) = 2
    /\ is_success(posts_of(requests)[1].status)
    /\ failed_write(requests[Len(requests)])
    /\ \E k \in 1..Len(remote) :
          /\ remote[k].package_name = posts_of(requests)[1].data.package_name
          /\ remote[k].supervision_setting = setting_of(posts_of(requests)[1].data)

\* A row of the default template: "0:00", no days, no time ranges.
is_template_row(row) ==
    row.MaxDuration = <<"0", ":", "0", "0">> /\ row.Days = <<>> /\ row.TimeRanges = <<>>

\* The rows are the template of the apps: as many rows as apps, every one a
\* template row, and every title in as many rows as there are apps of it.
is_template_of(rows, apps) ==
    /\ Len(rows) = Len(apps)
    /\ \A i \in 1..Len(rows) : is_template_row(rows[i])
    /\ \A k \in 1..Len(apps) :
          Cardinality({ i \in 1..Len(rows) : rows[i].App = apps[k].title })
              = Cardinality({ j \in 1..Len(apps) : apps[j].title = apps[k].title })

(* C12: when the configuration file does not exist, the step main takes is
   the creation of the default template and the last step of the run, with
   the dry-run flag or without it: it sends one request, the fetch of the
   state, and no write, it leaves the service as it is, it decides no action
   and loads no configuration, and when the fetch is answered it leaves a
   file with one row for each fetched app, "0:00" for Max Duration and Days
   and Time Ranges empty.  As long as the file is missing nothing is sent. *)
C12_MissingFileMakesTemplateOnly ==
    /\ [](~config_file.exists /\ pc = "main" => requests = <<>> /\ actions = <<>>)
    /\ [](pc = "done" /\ apps_config = EmptyMap /\ expected_limits = EmptyMap
            /\ current_limit_per_app = <<>> /\ idx = 0 =>
            /\ posts_of(requests) = <<>>
            /\ Len(requests) = 1
            /\ actions = <<>>
            /\ is_template_of(config_file.rows, remote))
    /\ [][~config_file.exists /\ pc = "main" =>
            /\ Len(requests') = 1
            /\ requests'[1].method = "GET"
            /\ remote' = remote
            /\ actions' = <<>>
            /\ apps_config' = EmptyMap
            /\ expected_limits' = EmptyMap
            /\ current_limit_per_app' = <<>>
            /\ idx' = 0
            /\ IF is_success(requests'[1].status)
               THEN /\ pc' = "done"
                    /\ error' = NoError
                    /\ config_file'.exists
                    /\ is_template_of(config_file'.rows, remote)
               ELSE /\ pc' = "raised"
                    /\ error' = Raised("HTTPStatusError", "_create_default_config")
                    /\ config_file' = config_file]_vars

\* A run without the dry-run flag on an account of two apps that had wished
\* restrictions to write, ended with the template of two rows and the fetch
\* for its only request.
C12_Witness ==
    /\ ~dry_run
    /\ pc = "done"
    /\ idx = 0
    /\ Len(remote) = 2
    /\ \A k \in 1..Len(remote) : ~remote[k].supervision_setting.hidden
    /\ config_file.exists
    /\ Len(config_file.rows) = 2
    /\ \A i \in 1..2 : is_template_row(config_file.rows[i])
    /\ requests = <<Get(200)>>
    /\ actions = <<>>

(* C13: every write of a pass goes to the app it was decided for: the
   package name of each updateRestrictions request is the package name of
   the fetched app whose title the action names, also when that title is
   part of the title of another app or is the package name of another app. *)
C13_WriteGoesToItsOwnApp ==
    LET posts == posts_of(requests)
        writes == writes_of(actions)
    IN  \A i \in 1..Len(posts) :
            \A k \in 1..Len(remote) :
                remote[k].title = writes[i].app
                    => posts[i].data.package_name = remote[k].package_name

====
